---- MODULE Spec2Model ----
(***************************************************************************)
(* A model of backend/main.py: the Language Profiler                       *)
(* (get_user_top_languages), the Issue Finder (find_good_first_issues),    *)
(* the Reason Generator (get_ai_analysis) and the command-line run that    *)
(* composes them.                                                          *)
(*                                                                         *)
(* Python values are written as follows.  None is the string "None".  A    *)
(* JSON object is a record and a missing key is a field the record does    *)
(* not have.  A text is a sequence of one-character strings, so that       *)
(* str.strip() can be computed.  What a function hands back is a record    *)
(* with a tag: "value" with the returned value, "None" for a returned      *)
(* None, or "raise" with the exception that leaves the function.           *)
(***************************************************************************)
EXTENDS Integers, Sequences, FiniteSets, TLC

VARIABLES
    pc,            \* position of the run (or of a single function call)
    argv_username, \* sys.argv[1], or None when the argument is missing
    GEMINI_KEYS,   \* the configured credential list (module level)
    top_langs,     \* main: top_langs
    lang_i,        \* main: index of `lang` in `for lang in top_langs`
    issues,        \* main: issues, what find_good_first_issues returned
    issue_i,       \* main: index of `issue` in `for i, issue in enumerate(issues)`
    found_issues,  \* main: found_issues
    selected,      \* main: the `lang` whose issues are being printed, or None
    emitted,       \* the numbered entries printed so far (lines 132-134)
    calls,         \* history: every call of the three components, in order
    exit_code,     \* process exit status, or None while running
    outcome,       \* how the run ended
    input,         \* single-call specifications: the arguments and the upstream answer
    output         \* single-call specifications: what the call handed back

vars == <<pc, argv_username, GEMINI_KEYS, top_langs, lang_i, issues, issue_i,
          found_issues, selected, emitted, calls, exit_code, outcome, input, output>>

None == "None"

----------------------------------------------------------------------------
(* Bounds of the model. *)

\* longest repository list the platform answers with
MaxRepos == 4
\* largest `count` argument tried
MaxCount == 3
\* longest `items` list in a search answer of a modelled run
MaxItems == 2

(* Program constants. *)

\* get_user_top_languages(username, count=3)
DefaultCount == 3
\* params["per_page"]
per_page == 10
\* issue_body[:500]
BodyLimit == 500

Langs == {"Go", "Rust", "Python"}

Min(a, b) == IF a <= b THEN a ELSE b

\* JSON null and a JSON string, where a field may hold either
JNull == [null |-> TRUE]

JStr(s) == [str |-> s]

Value(v) == [tag |-> "value", val |-> v]

ReturnNone == [tag |-> "None"]

Raise(e) == [tag |-> "raise", exc |-> e]

----------------------------------------------------------------------------
(* Startup configuration, lines 15-29. *)

\* [key for key in GEMINI_KEYS if key is not None]
RECURSIVE FilterNotNone(_)
FilterNotNone(keys) ==
    IF keys = <<>> THEN <<>>
    ELSE IF Head(keys) # None
         THEN <<Head(keys)>> \o FilterNotNone(Tail(keys))
         ELSE FilterNotNone(Tail(keys))

\* The credential lists the module can start with: every environment in which
\* `if not GEMINI_KEYS: raise ValueError` does not stop the import.
ConfiguredKeyLists ==
    { FilterNotNone(<<p, s>>) : p \in {None, "key-primary"},
                                s \in {None, "key-secondary"} } \ {<<>>}

----------------------------------------------------------------------------
(* Reason Generator: get_ai_analysis, lines 36-70. *)

Whitespace == {" ", "\n", "\t"}

RECURSIVE lstrip(_)
lstrip(s) ==
    IF s # <<>> /\ Head(s) \in Whitespace THEN lstrip(Tail(s)) ELSE s

RECURSIVE rstrip(_)
rstrip(s) ==
    IF s # <<>> /\ s[Len(s)] \in Whitespace
    THEN rstrip(SubSeq(s, 1, Len(s) - 1))
    ELSE s

\* A variant of strip: the text returned as it came.
strip_Missing(s) == s

\* str.strip(): leading and trailing whitespace removed
strip(s) == rstrip(lstrip(s))

\* The fixed string of line 70, kept as one piece.
Sentinel == <<"AI analysis failed: All API keys are rate-limited or invalid.">>

NoDescription == <<"No description provided.">>

\* Texts the generative service answers with.
Texts ==
    { <<" ", " ", "A", " ", "b", "u", "g", " ", "f", "i", "x", ".", " ", " ">>,
      <<"\n", "U", "I", "\t">>,
      <<" ", " ">>,
      <<>> }

\* What one generate_content attempt with one credential does.
Success(t) == [kind |-> "success", text |-> t]

Quota == [kind |-> "ResourceExhausted"]

OtherError == [kind |-> "Exception"]

Outcomes == {Success(t) : t \in Texts} \cup {Quota, OtherError}

\* `not x` for a JSON string or null
Falsy(x) == "null" \in DOMAIN x \/ x.str = <<>>

\* `if not issue_body: issue_body = "No description provided."`, then issue_body[:500]
PromptBody(issue_body) ==
    LET b == IF Falsy(issue_body) THEN NoDescription ELSE issue_body.str
    IN  SubSeq(b, 1, Min(BodyLimit, Len(b)))

\* A variant of AfterAttempt: `continue` in the `except Exception` branch too.
AfterAttempt_ContinueOnAnyError(o) ==
    IF o.kind = "success" THEN "return" ELSE "continue"

\* What ends an attempt's turn of the loop: "return", "continue" or "break".
AfterAttempt(o) ==
    CASE o.kind = "success" -> "return"
      [] o.kind = "ResourceExhausted" -> "continue"
      [] OTHER -> "break"

\* A variant of FirstKey: the loop starts at the second credential.
FirstKey_Second == 1 + 1

\* The index `enumerate(GEMINI_KEYS)` starts the loop at.
FirstKey == 1

\* The loop of lines 53-68 from credential i on; `tried` are the credentials
\* attempted so far.  outs[i] is what the attempt with credential i does.
RECURSIVE KeyLoop(_, _, _, _)
KeyLoop(keys, outs, i, tried) ==
    IF i > Len(keys)
    THEN [ret |-> Sentinel, attempts |-> tried]
    ELSE LET now == Append(tried, keys[i])
             step == AfterAttempt(outs[i])
         IN  CASE step = "return" -> [ret |-> strip(outs[i].text), attempts |-> now]
               [] step = "continue" -> KeyLoop(keys, outs, i + 1, now)
               [] OTHER -> [ret |-> Sentinel, attempts |-> now]

get_ai_analysis(issue_title, issue_body, keys, outs) ==
    LET r == KeyLoop(keys, outs, FirstKey, <<>>)
    IN  [ret |-> r.ret, attempts |-> r.attempts,
         prompt |-> <<issue_title, PromptBody(issue_body)>>]

\* Every way the attempts of one call can go, one outcome per credential.
OutcomePlans(keys) == [1..Len(keys) -> Outcomes]

----------------------------------------------------------------------------
(* Language Profiler: get_user_top_languages, lines 75-92. *)

\* One entry of the repository list: a language tag, null, or no "language" key.
Repo(l) == [language |-> l]

RepoWithoutLanguage == [name |-> "repo"]

RepoKinds == {Repo(l) : l \in Langs \cup {None}} \cup {RepoWithoutLanguage}

RepoLists == UNION { [1..n -> RepoKinds] : n \in 0..MaxRepos }

\* What requests.get answers for the repository list.
RepoResponses ==
    {[kind |-> "ConnectionError"], [kind |-> "HTTPError"], [kind |-> "not_json"]}
        \cup {[kind |-> "ok", json |-> rs] : rs \in RepoLists}

\* [repo["language"] for repo in repos if repo["language"] is not None]
RECURSIVE LanguagesOf(_)
LanguagesOf(repos) ==
    IF repos = <<>> THEN <<>>
    ELSE IF Head(repos).language # None
         THEN <<Head(repos).language>> \o LanguagesOf(Tail(repos))
         ELSE LanguagesOf(Tail(repos))

Occurrences(x, s) == Cardinality({i \in 1..Len(s) : s[i] = x})

\* Counter(languages): the distinct elements in order of first occurrence
RECURSIVE CounterKeys(_)
CounterKeys(s) ==
    IF s = <<>> THEN <<>>
    ELSE LET rest == CounterKeys(SubSeq(s, 1, Len(s) - 1))
             x == s[Len(s)]
         IN  IF \E i \in 1..Len(rest) : rest[i] = x THEN rest ELSE Append(rest, x)

\* A variant of Before: the smaller count first.
Before_Ascending(a, b, s) == Occurrences(a, s) < Occurrences(b, s)

\* Comes before in most_common's order: a larger count first.
Before(a, b, s) == Occurrences(a, s) > Occurrences(b, s)

\* x put into the sorted list `sorted`, after every element it does not come before
RECURSIVE InsertSorted(_, _, _)
InsertSorted(x, sorted, s) ==
    IF sorted = <<>> THEN <<x>>
    ELSE IF Before(x, Head(sorted), s)
         THEN <<x>> \o sorted
         ELSE <<Head(sorted)>> \o InsertSorted(x, Tail(sorted), s)

\* sorted(keys, key=count, reverse=True): stable, ties stay in first-seen order
RECURSIVE SortByCount(_, _)
SortByCount(keys, s) ==
    IF keys = <<>> THEN <<>>
    ELSE InsertSorted(keys[Len(keys)], SortByCount(SubSeq(keys, 1, Len(keys) - 1), s), s)

\* Counter(s).most_common(n) for n >= 0, names only
most_common(s, n) ==
    LET all == SortByCount(CounterKeys(s), s)
    IN  SubSeq(all, 1, Min(n, Len(all)))

get_user_top_languages(resp, count) ==
    IF resp.kind \in {"ConnectionError", "HTTPError"} THEN Value(<<>>)
    ELSE IF resp.kind = "not_json" THEN Raise("JSONDecodeError")
    ELSE IF resp.json = <<>> THEN Value(<<>>)
    ELSE IF \E i \in 1..Len(resp.json) : "language" \notin DOMAIN resp.json[i]
         THEN Raise("KeyError")
    ELSE IF LanguagesOf(resp.json) = <<>> THEN Value(<<>>)
    ELSE Value(most_common(LanguagesOf(resp.json), count))

----------------------------------------------------------------------------
(* Issue Finder: find_good_first_issues, lines 95-109. *)

RepositoryUrl == <<"https:", "", "api.github.com", "repos", "owner", "repo">>

\* The i-th item of a search answer; its title and link stand for its identity.
Item(i, kind) ==
    CASE kind = "full" ->
            [repository_url |-> RepositoryUrl, title |-> i, body |-> JStr(<<"t", "x", "t">>),
             html_url |-> i]
      [] kind = "null_body" ->
            [repository_url |-> RepositoryUrl, title |-> i, body |-> JNull, html_url |-> i]
      [] kind = "no_repository_url" ->
            [title |-> i, body |-> JStr(<<"t", "x", "t">>), html_url |-> i]
      [] OTHER ->
            [repository_url |-> RepositoryUrl, title |-> i, body |-> JStr(<<"t", "x", "t">>)]

ItemKinds == {"full", "null_body", "no_repository_url", "no_html_url"}

ItemLists(max) ==
    UNION { { [i \in 1..n |-> Item(i, ks[i])] : ks \in [1..n -> ItemKinds] } : n \in 0..max }

\* What requests.get answers for the issue search.  status 403 is the rate limit,
\* HTTPError any other status raise_for_status() refuses.
SearchResponsesOf(lists) ==
    {[kind |-> "ConnectionError"], [kind |-> "status_403"], [kind |-> "HTTPError"],
     [kind |-> "not_json"], [kind |-> "ok_without_items"]}
        \cup {[kind |-> "ok", items |-> l] : l \in lists}

\* The search answers of a modelled run.
SearchResponses == SearchResponsesOf(ItemLists(MaxItems))

\* response.json().get("items", []): the list as the service sent it
ItemsOf(resp) == IF resp.kind = "ok_without_items" THEN <<>> ELSE resp.items

find_good_first_issues(language, resp) ==
    IF resp.kind \in {"ConnectionError", "status_403", "HTTPError"} THEN ReturnNone
    ELSE IF resp.kind = "not_json" THEN Raise("JSONDecodeError")
    ELSE Value(ItemsOf(resp))

----------------------------------------------------------------------------
(* The command-line run, lines 112-139. *)

\* A variant of Truthy: `if issues is not None:`, an empty list passes.
Truthy_EmptyAccepted(r) == r.tag = "value"

\* `if issues:` for what find_good_first_issues returned (None or a list)
Truthy(r) == r.tag = "value" /\ r.val # <<>>

\* A variant of MissingArgument: the check of sys.argv left out.
MissingArgument_Never(argv1) == FALSE

\* `len(sys.argv) < 2`, for sys.argv[1] or None
MissingArgument(argv1) == argv1 = None

\* issue['repository_url'].split('/')[-2] + '/' + issue['repository_url'].split('/')[-1]
RepoName(url) == <<url[Len(url) - 1], "/", url[Len(url)]>>

ProfilerCall(username, r) ==
    [fn |-> "get_user_top_languages", arg |-> username, ret |-> r]

FinderCall(lang, r) == [fn |-> "find_good_first_issues", arg |-> lang, ret |-> r]

ReasonCall(title, a) ==
    [fn |-> "get_ai_analysis", arg |-> title, ret |-> a.ret, attempts |-> a.attempts]

\* An uncaught exception: the interpreter prints the traceback and exits with status 1.
Traceback ==
    /\ pc' = "done"
    /\ exit_code' = 1
    /\ outcome' = "traceback"

Init ==
    /\ pc = "main"
    /\ argv_username \in {None, "octocat"}
    /\ GEMINI_KEYS \in ConfiguredKeyLists
    /\ top_langs = <<>>
    /\ lang_i = 0
    /\ issues = ReturnNone
    /\ issue_i = 0
    /\ found_issues = FALSE
    /\ selected = None
    /\ emitted = <<>>
    /\ calls = <<>>
    /\ exit_code = None
    /\ outcome = None
    /\ input = None
    /\ output = None

\* lines 113-123: the argument check, the Language Profiler, the check of its result
Main ==
    /\ pc = "main"
    /\ IF MissingArgument(argv_username)
       THEN /\ pc' = "done"
            /\ exit_code' = 1
            /\ outcome' = "usage"
            /\ UNCHANGED <<top_langs, lang_i, calls>>
       ELSE \E resp \in RepoResponses :
              LET r == get_user_top_languages(resp, DefaultCount)
              IN  /\ calls' = Append(calls, ProfilerCall(argv_username, r))
                  /\ IF r.tag = "raise"
                     THEN Traceback /\ UNCHANGED <<top_langs, lang_i>>
                     ELSE /\ top_langs' = r.val
                          /\ IF r.val = <<>>
                             THEN /\ pc' = "done"
                                  /\ exit_code' = 1
                                  /\ outcome' = "no_languages"
                                  /\ UNCHANGED lang_i
                             ELSE /\ pc' = "for_lang"
                                  /\ lang_i' = 1
                                  /\ UNCHANGED <<exit_code, outcome>>
    /\ UNCHANGED <<argv_username, GEMINI_KEYS, issues, issue_i, found_issues, selected,
                   emitted, input, output>>

\* lines 125-128: one turn of `for lang in top_langs` up to the inner loop
ForLang ==
    /\ pc = "for_lang"
    /\ IF lang_i > Len(top_langs)
       THEN /\ pc' = "after_loop"
            /\ UNCHANGED <<issues, issue_i, selected, calls, lang_i, exit_code, outcome>>
       ELSE \E resp \in SearchResponses :
              LET lang == top_langs[lang_i]
                  r == find_good_first_issues(lang, resp)
              IN  /\ calls' = Append(calls, FinderCall(lang, r))
                  /\ IF r.tag = "raise"
                     THEN Traceback /\ UNCHANGED <<issues, issue_i, selected, lang_i>>
                     ELSE /\ issues' = r
                          /\ UNCHANGED <<exit_code, outcome>>
                          /\ IF Truthy(r)
                             THEN /\ pc' = "for_issue"
                                  /\ selected' = lang
                                  /\ issue_i' = 1
                                  /\ UNCHANGED lang_i
                             ELSE /\ pc' = "for_lang"
                                  /\ lang_i' = lang_i + 1
                                  /\ UNCHANGED <<selected, issue_i>>
    /\ UNCHANGED <<argv_username, GEMINI_KEYS, top_langs, found_issues, emitted,
                   input, output>>

\* lines 129-136: one turn of `for i, issue in enumerate(issues)`; after the last
\* turn found_issues = True and break
ForIssue ==
    /\ pc = "for_issue"
    /\ LET issue == issues.val[issue_i]
       IN  IF {"repository_url", "title", "body"} \ DOMAIN issue # {}
           THEN Traceback /\ UNCHANGED <<calls, emitted, issue_i, found_issues>>
           ELSE \E outs \in OutcomePlans(GEMINI_KEYS) :
                  LET a == get_ai_analysis(issue.title, issue.body, GEMINI_KEYS, outs)
                  IN  /\ calls' = Append(calls, ReasonCall(issue.title, a))
                      /\ IF "html_url" \notin DOMAIN issue
                         THEN Traceback /\ UNCHANGED <<emitted, issue_i, found_issues>>
                         ELSE /\ emitted' = Append(emitted,
                                     [n |-> issue_i,
                                      repo_name |-> RepoName(issue.repository_url),
                                      title |-> issue.title,
                                      link |-> issue.html_url,
                                      ai_reason |-> a.ret])
                              /\ UNCHANGED <<exit_code, outcome>>
                              /\ IF issue_i < Len(issues.val)
                                 THEN /\ issue_i' = issue_i + 1
                                      /\ UNCHANGED <<pc, found_issues>>
                                 ELSE /\ found_issues' = TRUE
                                      /\ pc' = "after_loop"
                                      /\ UNCHANGED issue_i
    /\ UNCHANGED <<argv_username, GEMINI_KEYS, top_langs, lang_i, issues, selected,
                   input, output>>

\* lines 138-139 and the end of the script: exit status 0
AfterLoop ==
    /\ pc = "after_loop"
    /\ pc' = "done"
    /\ exit_code' = 0
    /\ outcome' = IF found_issues THEN "results" ELSE "no_suitable_issues"
    /\ UNCHANGED <<argv_username, GEMINI_KEYS, top_langs, lang_i, issues, issue_i,
                   found_issues, selected, emitted, calls, input, output>>

Next == Main \/ ForLang \/ ForIssue \/ AfterLoop

Spec == Init /\ [][Next]_vars

----------------------------------------------------------------------------
(* Single calls of the three components, each on every answer of its       *)
(* collaborator: the arguments and the upstream answer are drawn in the    *)
(* initial state and kept in `input`, the call's result goes to `output`.  *)

\* The variables of the run, which a single call leaves alone.
NoRun ==
    /\ argv_username = None
    /\ top_langs = <<>>
    /\ lang_i = 0
    /\ issues = ReturnNone
    /\ issue_i = 0
    /\ found_issues = FALSE
    /\ selected = None
    /\ emitted = <<>>
    /\ calls = <<>>
    /\ exit_code = None
    /\ outcome = None

Returned(r) ==
    /\ pc = "call"
    /\ pc' = "returned"
    /\ output' = r
    /\ UNCHANGED <<argv_username, GEMINI_KEYS, top_langs, lang_i, issues, issue_i,
                   found_issues, selected, emitted, calls, exit_code, outcome, input>>

\* A body longer than the prompt takes.
LongBody == [i \in 1..(BodyLimit + 1) |-> "x"]

IssueBodies == {JNull, JStr(<<>>), JStr(<<"t", "x", "t">>), JStr(LongBody)}

InitAI ==
    /\ pc = "call"
    /\ GEMINI_KEYS \in ConfiguredKeyLists
    /\ input \in { [issue_title |-> 1, issue_body |-> b, outs |-> o] :
                     b \in IssueBodies, o \in OutcomePlans(GEMINI_KEYS) }
    /\ output = None
    /\ NoRun

CallAI ==
    Returned(get_ai_analysis(input.issue_title, input.issue_body, GEMINI_KEYS, input.outs))

SpecAI == InitAI /\ [][CallAI]_vars

InitLang ==
    /\ pc = "call"
    /\ GEMINI_KEYS \in ConfiguredKeyLists
    /\ input \in { [username |-> "octocat", count |-> c, resp |-> r] :
                     c \in 0..MaxCount, r \in RepoResponses }
    /\ output = None
    /\ NoRun

CallLang == Returned(get_user_top_languages(input.resp, input.count))

SpecLang == InitLang /\ [][CallLang]_vars

\* n complete items
FullItems(n) == [i \in 1..n |-> Item(i, "full")]

\* The search answers of a single call: those of a run, a full page, and a page
\* with one item more than was asked for.
SingleCallSearchResponses ==
    SearchResponsesOf(ItemLists(MaxItems) \cup {FullItems(per_page), FullItems(per_page + 1)})

InitFind ==
    /\ pc = "call"
    /\ GEMINI_KEYS \in ConfiguredKeyLists
    /\ input \in { [language |-> l, resp |-> r] :
                     l \in Langs, r \in SingleCallSearchResponses }
    /\ output = None
    /\ NoRun

CallFind == Returned(find_good_first_issues(input.language, input.resp))

SpecFind == InitFind /\ [][CallFind]_vars

----------------------------------------------------------------------------
(* Properties. *)

IsProfilerCall(c) == c.fn = "get_user_top_languages"

IsFinderCall(c) == c.fn = "find_good_first_issues"

IsReasonCall(c) == c.fn = "get_ai_analysis"

FinderCalls == SelectSeq(calls, IsFinderCall)

ReasonCalls == SelectSeq(calls, IsReasonCall)

\* A call of the Issue Finder that returned None or an empty sequence.
Skipped(c) == c.ret.tag = "None" \/ (c.ret.tag = "value" /\ c.ret.val = <<>>)

\* A call of the Issue Finder that returned a non-empty sequence.
NonEmpty(c) == c.ret.tag = "value" /\ c.ret.val # <<>>

\* C1: in a run whose top-language list is not empty, the Issue Finder is called
\* on the languages in list order, one call per language; every language whose
\* call returned None or an empty sequence is passed over and the next one is
\* tried (the loop is left after such a call only when the list is used up); the
\* selected language is the first whose call returned a non-empty sequence, and
\* no language after it is queried.
C1_LanguagesTriedInOrder ==
    LET F == FinderCalls
        n == Len(F)
    IN  /\ n <= Len(top_langs)
        /\ \A i \in 1..n : F[i].arg = top_langs[i]
        /\ \A i \in 1..(n - 1) : Skipped(F[i])
        /\ selected # None => n >= 1 /\ F[n].arg = selected /\ NonEmpty(F[n])
        /\ (n >= 1 /\ NonEmpty(F[n])) => selected = top_langs[n]
        /\ (n >= 1 /\ Skipped(F[n]) /\ pc \in {"after_loop", "done"})
               => n = Len(top_langs)
        /\ (n = 0 /\ top_langs # <<>>) => pc = "for_lang"

\* C1's case: a 403 for the first of three languages, the second one selected,
\* the third never queried.
C1_Witness ==
    /\ pc = "done"
    /\ Len(top_langs) = 3
    /\ Len(FinderCalls) = 2
    /\ FinderCalls[1].ret.tag = "None"
    /\ selected = top_langs[2]
    /\ Len(emitted) = 2

\* C2: within one get_ai_analysis call the credentials are attempted in the
\* configured order, each at most once, at least one and at most all of them;
\* every attempt but the last raised ResourceExhausted, so nothing is attempted
\* after a success or after another error.
C2_FailoverOrder ==
    pc = "returned" =>
        LET a == output.attempts
            m == Len(a)
        IN  /\ m >= 1
            /\ m <= Len(GEMINI_KEYS)
            /\ \A i \in 1..m : a[i] = GEMINI_KEYS[i]
            /\ \A i, j \in 1..m : i # j => a[i] # a[j]
            /\ \A i \in 1..(m - 1) : input.outs[i] = Quota
            /\ \A i \in 1..m : input.outs[i] # Quota => m = i

\* C2's case: two credentials, the first fails with another error than quota,
\* the second is never attempted.
C2_Witness ==
    /\ pc = "returned"
    /\ Len(GEMINI_KEYS) = 2
    /\ input.outs[1] = OtherError
    /\ input.outs[2].kind = "success"
    /\ output.attempts = <<GEMINI_KEYS[1]>>

\* r is t without its leading and trailing whitespace.
IsTrimOf(r, t) ==
    /\ r # <<>> => r[1] \notin Whitespace /\ r[Len(r)] \notin Whitespace
    /\ \E i \in 0..Len(t) :
          /\ i + Len(r) <= Len(t)
          /\ SubSeq(t, i + 1, i + Len(r)) = r
          /\ \A k \in 1..i : t[k] \in Whitespace
          /\ \A k \in (i + Len(r) + 1)..Len(t) : t[k] \in Whitespace

\* The attempt that succeeds: every credential before it raised ResourceExhausted.
SuccessfulAttempts(outs) ==
    { i \in DOMAIN outs : outs[i].kind = "success" /\ \A j \in 1..(i - 1) : outs[j] = Quota }

\* C3: whatever each credential does, get_ai_analysis returns a string: the
\* response text of the successful attempt without its leading and trailing
\* whitespace, and the fixed failure string when no attempt succeeded (all
\* credentials out of quota, or another error before any success).
C3_ReturnsTextOrSentinel ==
    pc = "returned" =>
        LET S == SuccessfulAttempts(input.outs)
        IN  /\ S # {} => \A i \in S : IsTrimOf(output.ret, input.outs[i].text)
            /\ S = {} => output.ret = Sentinel
            /\ input.outs = <<Quota, Success(<<" ", " ", "A", " ", "b", "u", "g", " ",
                                               "f", "i", "x", ".", " ", " ">>)>>
                 => output.ret = <<"A", " ", "b", "u", "g", " ", "f", "i", "x", ".">>

\* C3's case: the first credential out of quota, the second answers
\* "  A bug fix.  ".
C3_Witness ==
    /\ pc = "returned"
    /\ Len(GEMINI_KEYS) = 2
    /\ input.outs[1] = Quota
    /\ input.outs[2].kind = "success"
    /\ output.ret = <<"A", " ", "b", "u", "g", " ", "f", "i", "x", ".">>
    /\ Len(output.attempts) = 2

\* C4 as stated: a run ends with status 1 if the username is missing or no
\* language was determined, and with status 0 in every other case.
C4_ExitCodes ==
    pc = "done" =>
        exit_code = IF argv_username = None \/ top_langs = <<>> THEN 1 ELSE 0

\* C5: without a username no component is called; the Issue Finder and the
\* Reason Generator are called only after the Language Profiler returned a
\* non-empty list; the Reason Generator is called only after a call of the Issue
\* Finder that returned a non-empty sequence.
C5_CallsGated ==
    /\ argv_username = None => calls = <<>>
    /\ \A i \in 1..Len(calls) :
          /\ IsProfilerCall(calls[i]) => i = 1
          /\ ~IsProfilerCall(calls[i]) =>
                /\ IsProfilerCall(calls[1])
                /\ calls[1].ret.tag = "value"
                /\ calls[1].ret.val # <<>>
          /\ IsReasonCall(calls[i]) =>
                \E j \in 1..(i - 1) : IsFinderCall(calls[j]) /\ NonEmpty(calls[j])
    /\ (pc = "done" /\ top_langs = <<>>) => Len(calls) <= 1

\* C5's case: a run that ended because the Language Profiler returned no language.
C5_Witness ==
    /\ pc = "done"
    /\ outcome = "no_languages"
    /\ Len(calls) = 1
    /\ calls[1].ret = Value(<<>>)

\* The language tags of a repository list that are not null.
TagsOf(repos) == { repos[i].language : i \in {k \in 1..Len(repos) : repos[k].language # None} }

TagCount(l, repos) == Cardinality({k \in 1..Len(repos) : repos[k].language = l})

\* A failed fetch, or a list of repository summaries {language: string or null}.
IsRepositoryAnswer(resp) ==
    \/ resp.kind \in {"ConnectionError", "HTTPError"}
    \/ /\ resp.kind = "ok"
       /\ \A i \in 1..Len(resp.json) : "language" \in DOMAIN resp.json[i]

\* C6: for a failed fetch and for every repository list, and every count,
\* get_user_top_languages returns a sequence without duplicates, no longer than
\* count, in order of non-increasing occurrence count, of non-null language tags
\* of the list; it is empty for a failed fetch, an empty list and a list of null
\* tags; for [Go, Go, Rust, null] and count 3 it is [Go, Rust].
C6_TopLanguages ==
    (pc = "returned" /\ IsRepositoryAnswer(input.resp)) =>
        /\ output.tag = "value"
        /\ LET r == output.val
               repos == IF input.resp.kind = "ok" THEN input.resp.json ELSE <<>>
           IN  /\ Len(r) <= input.count
               /\ \A i, j \in 1..Len(r) : i # j => r[i] # r[j]
               /\ \A i, j \in 1..Len(r) :
                     i < j => TagCount(r[i], repos) >= TagCount(r[j], repos)
               /\ \A i \in 1..Len(r) : r[i] \in TagsOf(repos)
               /\ TagsOf(repos) = {} => r = <<>>
               /\ (repos = <<Repo("Go"), Repo("Go"), Repo("Rust"), Repo(None)>>
                     /\ input.count = 3) => r = <<"Go", "Rust">>

\* C6's case: the list [Go, Go, Rust, null] with count 3.
C6_Witness ==
    /\ pc = "returned"
    /\ input.resp.kind = "ok"
    /\ input.resp.json = <<Repo("Go"), Repo("Go"), Repo("Rust"), Repo(None)>>
    /\ input.count = 3
    /\ output = Value(<<"Go", "Rust">>)

\* C7 as stated: neither the Language Profiler nor the Issue Finder ever raises,
\* and a run ends only with the usage message, with "could not determine
\* languages", with its results or with "no suitable issues found".
C7_NoAbnormalEnd ==
    /\ \A i \in 1..Len(calls) :
          (IsProfilerCall(calls[i]) \/ IsFinderCall(calls[i])) => calls[i].ret.tag # "raise"
    /\ pc = "done" =>
          outcome \in {"usage", "no_languages", "results", "no_suitable_issues"}

\* C8 as stated: find_good_first_issues returns None or a sequence of at most
\* per_page (10) items, whatever the search service answers.
C8_AtMostTenIssues ==
    (pc = "returned" /\ output.tag = "value") => Len(output.val) <= per_page

\* C9 as stated: once a language is selected, the run makes one Reason Generator
\* call per issue of its sequence, in order, and ends with one emitted entry per
\* issue, in order.
C9_OneEntryPerIssue ==
    (pc = "done" /\ selected # None) =>
        /\ Len(ReasonCalls) = Len(issues.val)
        /\ \A i \in 1..Len(ReasonCalls) : ReasonCalls[i].arg = issues.val[i].title
        /\ Len(emitted) = Len(issues.val)
        /\ \A i \in 1..Len(emitted) :
              /\ emitted[i].title = issues.val[i].title
              /\ emitted[i].ai_reason = ReasonCalls[i].ret

AttemptsIn(cs) == LET RECURSIVE sum(_)
                      sum(q) == IF q = <<>> THEN 0 ELSE Len(Head(q).attempts) + sum(Tail(q))
                  IN  sum(cs)

C10_EveryCallStartsAtFirstKey ==
    /\ \A i \in 1..Len(ReasonCalls) :
          /\ Len(ReasonCalls[i].attempts) >= 1
          /\ ReasonCalls[i].attempts[1] = GEMINI_KEYS[1]
    /\ ReasonCalls # <<>> =>
          /\ issues.tag = "value"
          /\ AttemptsIn(ReasonCalls) <= Len(issues.val) * Len(GEMINI_KEYS)

\* C10: no call of get_ai_analysis changes the configured credential list, every
\* call of a run starts at the first configured credential whatever happened to
\* it in the call before, and a run makes at most (number of issues) x (number
\* of credentials) generation attempts.
C10_FailoverKeepsNoState ==
    /\ []C10_EveryCallStartsAtFirstKey
    /\ [][GEMINI_KEYS' = GEMINI_KEYS]_vars

\* C10's case: a call in which the first credential was out of quota, followed
\* by a call that starts at the first credential again.
C10_Witness ==
    \E i \in 1..(Len(calls) - 1) :
        /\ IsReasonCall(calls[i])
        /\ Len(calls[i].attempts) = 2
        /\ IsReasonCall(calls[i + 1])
        /\ calls[i + 1].attempts[1] = GEMINI_KEYS[1]
====
